---- MODULE Spec2Model ----
(***************************************************************************)
(* Model of pyaividgen.py: module start-up (credential check, settings),   *)
(* then main(): text generation, speech synthesis, image-prompt generation *)
(* and image generation, each a blocking call with its own error handling. *)
(* The outside world (user answers, provider replies, I/O errors) is       *)
(* nondeterministic; the file system holds the text/audio files and the    *)
(* image destination folder.                                               *)
(***************************************************************************)
EXTENDS Integers, Sequences, FiniteSets, TLC

\* ---------------------------------------------------------------- bounds
\* largest image count on the command line, in default_num_images and in
\* max_num_images
MaxNum == 3

\* ---------------------------------------------------------------- values
\* A path is a sequence of name pieces; the empty sequence is both None and
\* the empty string (both falsy in Python).
NoPath == <<>>
TXT == <<"a", ".txt">>
MD == <<"a", ".md">>
MP3 == <<"a", ".mp3">>
Paths == {TXT, MD, MP3}
TextPaths == {TXT, MD}

\* file contents
Absent == "absent"
NoText == "none"
GenText == "generated text"
Audio == "new audio"
OldAudio == "old audio"
InitialContent(p) == IF p = TXT THEN "text of a.txt"
                     ELSE IF p = MD THEN "text of a.md" ELSE OldAudio

\* entries of the image destination folder
Sub == <<"sub", 0>>
image_file(i) == <<"image", i>>
PreNames == {Sub, image_file(1)}
FolderNames == PreNames \cup {image_file(i) : i \in 1..MaxNum}
PreKind(n) == IF n = Sub THEN "dir" ELSE "old"

\* -n absent on the command line
NoNum == 0 - 1
Nums == 0..MaxNum

Answers == {"", "y", "n"}

VARIABLES
    pc,                 \* position in the script
    openai_api_key,     \* TRUE iff OPENAI_API_KEY is set and non-empty
    settings_file,      \* "ok" | "missing" | "unreadable"
    settings,           \* the parsed settings.json
    cli,                \* the command line: text_file, num_images
    fs0, folder0,       \* the file system and the folder when the run starts
    fs,                 \* Paths -> content or Absent
    folder,             \* FolderNames -> "absent" | "dir" | "old" | "new"
    args_text_file,     \* args.text_file
    text_file_available, mp3_file_exists, text_output_file,
    num_images, text_content, image_prompts,
    prompt_loop,        \* the loop of generate_image_prompts has not been left
    img_i,              \* index of the image loop (enumerate from 1)
    asked,              \* confirmations shown so far
    reqs,               \* provider requests sent so far, per endpoint
    tts_input,          \* text sent to the speech endpoint
    prompt_inputs,      \* texts sent with image-prompt requests
    written,            \* <<writer, path>> of every file write of the run
    prompt_failed,      \* an image-prompt request failed
    sibling_seen,       \* the audio sibling existed when the speech stage was reached
    images_invoked,     \* generate_and_save_images was called
    outcomes,           \* the image loop's attempts: [i, outcome], in order
    printed,            \* error messages of main printed so far
    crash_site,         \* where an exception left main uncaught, or "none"
    exit_status         \* Running until the process ends

inputs == <<openai_api_key, settings_file, settings, cli, fs0, folder0>>
txt == <<args_text_file, text_file_available, mp3_file_exists, text_output_file>>
img == <<num_images, text_content, image_prompts, prompt_loop, img_i>>
obs == <<asked, reqs, tts_input, prompt_inputs, written>>
notes == <<prompt_failed, sibling_seen, images_invoked, outcomes, printed>>
term == <<crash_site, exit_status>>
vars == <<pc, inputs, fs, folder, txt, img, obs, notes, term>>

Running == 0 - 1

\* ---------------------------------------------------------------- helpers
Min(a, b) == IF a < b THEN a ELSE b

\* str.replace('.txt', '.mp3')
replace_txt_mp3(p) == [k \in DOMAIN p |-> IF p[k] = ".txt" THEN ".mp3" ELSE p[k]]

\* os.path.exists
path_exists(f, p) == p \in DOMAIN f /\ f[p] # Absent

\* response in ['', 'y', 'yes']
user_says_yes(response) == response \in {"", "y", "yes"}

\* args.num_images as argparse delivers it (default=settings.get(...))
parsed_num_images(c, st) ==
    IF c.num_images = NoNum THEN st.default_num_images ELSE c.num_images

TypeOK ==
    /\ pc \in {"start", "read_settings", "main", "ask_text", "gen_text", "save_text",
               "tts_gate", "tts", "img_gate", "read_text", "prompts", "purge",
               "images", "done", "crashed", "exited"}
    /\ openai_api_key \in BOOLEAN
    /\ fs \in [Paths -> STRING]
    /\ folder \in [FolderNames -> {"absent", "dir", "old", "new"}]
    /\ exit_status \in {Running, 0, 1}

Init ==
    /\ pc = "start"
    /\ openai_api_key \in BOOLEAN
    /\ settings_file \in {"ok", "missing", "unreadable"}
    /\ settings \in [text_output_file : TextPaths,
                     default_num_images : Nums, max_num_images : Nums]
    /\ cli \in [text_file : TextPaths \cup {NoPath}, num_images : Nums \cup {NoNum}]
    /\ \E present \in SUBSET Paths :
          fs0 = [p \in Paths |-> IF p \in present THEN InitialContent(p) ELSE Absent]
    /\ \E present \in SUBSET PreNames :
          folder0 = [n \in FolderNames |-> IF n \in present THEN PreKind(n) ELSE "absent"]
    /\ fs = fs0
    /\ folder = folder0
    /\ args_text_file = cli.text_file
    /\ text_file_available = FALSE
    /\ mp3_file_exists = FALSE
    /\ text_output_file = NoPath
    /\ num_images = 0
    /\ text_content = NoText
    /\ image_prompts = <<>>
    /\ prompt_loop = TRUE
    /\ img_i = 1
    /\ asked = {}
    /\ reqs = [text |-> 0, tts |-> 0, prompt |-> 0, image |-> 0]
    /\ tts_input = NoText
    /\ prompt_inputs = {}
    /\ written = {}
    /\ prompt_failed = FALSE
    /\ sibling_seen = FALSE
    /\ images_invoked = FALSE
    /\ outcomes = <<>>
    /\ printed = {}
    /\ crash_site = "none"
    /\ exit_status = Running

\* ---------------------------------------------------------------- start-up
\* lines 14-17
credential_missing(key) == ~key

CheckCredential ==
    /\ pc = "start"
    /\ IF credential_missing(openai_api_key)
         THEN pc' = "exited" /\ exit_status' = 1
         ELSE pc' = "read_settings" /\ UNCHANGED exit_status
    /\ UNCHANGED <<inputs, fs, folder, txt, img, obs, notes, crash_site>>

\* a read_settings that forgets the exit after a missing file
startup_exit_status_noexit(sf) == IF sf = "unreadable" THEN 1 ELSE 0

\* lines 24-34: FileNotFoundError gives None and exit(1); any other error of
\* open/json.load is not caught and ends the interpreter with status 1.
\* 0 stands for "keep running".
startup_exit_status(sf) ==
    IF sf = "missing" THEN 1 ELSE IF sf = "unreadable" THEN 1 ELSE 0

ReadSettings ==
    /\ pc = "read_settings"
    /\ IF startup_exit_status(settings_file) # 0
         THEN pc' = "exited" /\ exit_status' = startup_exit_status(settings_file)
         ELSE pc' = "main" /\ UNCHANGED exit_status
    /\ UNCHANGED <<inputs, fs, folder, txt, img, obs, notes, crash_site>>

\* ---------------------------------------------------------------- main
\* a main that always reads the settings' text file
text_output_file_settings_only(tf, st) == st.text_output_file

\* line 152
text_output_file_of(tf, st) == IF tf # NoPath THEN tf ELSE st.text_output_file

\* a main without the check for the audio file
corresponding_mp3_never_found(f, tf) == FALSE

\* lines 159-162: is the audio sibling of the supplied text file there?
corresponding_mp3_found(f, tf) == path_exists(f, replace_txt_mp3(tf))

\* lines 150-163
MainStart ==
    /\ pc = "main"
    /\ text_output_file' = text_output_file_of(args_text_file, settings)
    /\ IF args_text_file # NoPath
         THEN /\ text_file_available' = TRUE
              /\ mp3_file_exists' = corresponding_mp3_found(fs, args_text_file)
              /\ pc' = "tts_gate"
         ELSE /\ UNCHANGED <<text_file_available, mp3_file_exists>>
              /\ pc' = "ask_text"
    /\ UNCHANGED <<inputs, fs, folder, args_text_file, img, obs, notes, term>>

\* lines 164, 171-172 with ask_user_for_text_generation (55-57)
AskTextGeneration ==
    /\ pc = "ask_text"
    /\ asked' = asked \cup {"text"}
    /\ \E response \in Answers :
          pc' = IF user_says_yes(response) THEN "gen_text" ELSE "tts_gate"
    /\ UNCHANGED <<inputs, fs, folder, txt, img, reqs, tts_input, prompt_inputs,
                   written, notes, term>>

\* lines 166-167 with generate_text_with_openai (36-48): the reply is a
\* non-empty text, an empty text, or the request raises (caught, None).
GenerateText ==
    /\ pc = "gen_text"
    /\ reqs' = [reqs EXCEPT !.text = @ + 1]
    /\ \E reply \in {"text", "empty", "error"} :
          pc' = IF reply = "text" THEN "save_text" ELSE "tts_gate"
    /\ UNCHANGED <<inputs, fs, folder, txt, img, asked, tts_input, prompt_inputs,
                   written, notes, term>>

\* lines 168-170 with save_generated_text (50-53): open/write has no handler,
\* an OSError leaves main.
SaveGeneratedText ==
    /\ pc = "save_text"
    /\ \E io_ok \in BOOLEAN :
          IF io_ok
            THEN /\ fs' = [fs EXCEPT ![settings.text_output_file] = GenText]
                 /\ written' = written \cup {<<"save", settings.text_output_file>>}
                 /\ args_text_file' = settings.text_output_file
                 /\ text_file_available' = TRUE
                 /\ pc' = "tts_gate"
                 /\ UNCHANGED term
            ELSE /\ pc' = "crashed"
                 /\ crash_site' = "save_text"
                 /\ exit_status' = 1
                 /\ UNCHANGED <<fs, written, args_text_file, text_file_available>>
    /\ UNCHANGED <<inputs, folder, mp3_file_exists, text_output_file, img, asked, reqs,
                   tts_input, prompt_inputs, notes>>

\* line 174
speech_stage_due(available, mp3_exists) == available /\ ~mp3_exists

\* lines 174-179 with ask_user_for_text_to_speech_transformation (59-61)
TTSGate ==
    /\ pc = "tts_gate"
    /\ sibling_seen' = (text_file_available
                        /\ path_exists(fs, replace_txt_mp3(args_text_file)))
    /\ IF speech_stage_due(text_file_available, mp3_file_exists)
         THEN /\ asked' = asked \cup {"tts"}
              /\ \E response \in Answers :
                    pc' = IF user_says_yes(response) THEN "tts" ELSE "img_gate"
         ELSE /\ pc' = "img_gate"
              /\ UNCHANGED asked
    /\ UNCHANGED <<inputs, fs, folder, txt, img, reqs, tts_input, prompt_inputs, written,
                   prompt_failed, images_invoked, outcomes, printed, term>>

\* perform_text_to_speech_transformation (63-79): every failure is caught.
\* open fails when the file is absent and may fail otherwise; the request is
\* sent only after the read; the audio is written only after the reply.
PerformTTS ==
    /\ pc = "tts"
    /\ \E outcome \in {"ok", "open_error", "request_error", "write_error"} :
          /\ ~path_exists(fs, args_text_file) => outcome = "open_error"
          /\ IF outcome = "open_error"
               THEN UNCHANGED <<reqs, tts_input>>
               ELSE /\ reqs' = [reqs EXCEPT !.tts = @ + 1]
                    /\ tts_input' = fs[args_text_file]
          /\ IF outcome = "ok"
               THEN /\ fs' = [fs EXCEPT ![replace_txt_mp3(args_text_file)] = Audio]
                    /\ written' = written \cup {<<"tts", replace_txt_mp3(args_text_file)>>}
               ELSE UNCHANGED <<fs, written>>
    /\ pc' = "img_gate"
    /\ UNCHANGED <<inputs, folder, txt, img, asked, prompt_inputs, notes, term>>

\* ---------------------------------------------------------------- images
\* lines 182-189 and 215-216: os.makedirs has no handler; then
\* ask_user_for_image_generation (81-83)
ImageGate ==
    /\ pc = "img_gate"
    /\ \E io_ok \in BOOLEAN :
          IF io_ok
            THEN /\ asked' = asked \cup {"image"}
                 /\ \E response \in Answers :
                       IF user_says_yes(response)
                         THEN pc' = "read_text" /\ UNCHANGED exit_status
                         ELSE pc' = "done" /\ exit_status' = 0
                 /\ UNCHANGED crash_site
            ELSE /\ pc' = "crashed"
                 /\ crash_site' = "makedirs"
                 /\ exit_status' = 1
                 /\ UNCHANGED asked
    /\ UNCHANGED <<inputs, fs, folder, txt, img, reqs, tts_input, prompt_inputs, written,
                   notes>>

\* a count taken without the cap
effective_num_images_uncapped(n, st) == IF n # 0 THEN n ELSE st.default_num_images

\* lines 193-196: min(args.num_images if args.num_images else default, max)
effective_num_images(n, st) ==
    Min(IF n # 0 THEN n ELSE st.default_num_images, st.max_num_images)

\* a main that goes on without the text
after_file_not_found_goes_on == "prompts"

\* lines 202-204: where main goes after FileNotFoundError (return)
after_file_not_found == "done"

\* lines 192-204: only FileNotFoundError is handled
ReadTextForImages ==
    /\ pc = "read_text"
    /\ num_images' = effective_num_images(parsed_num_images(cli, settings), settings)
    /\ IF ~path_exists(fs, text_output_file)
         THEN /\ printed' = printed \cup {"text output file not found"}
              /\ pc' = after_file_not_found
              /\ exit_status' = IF after_file_not_found = "done" THEN 0 ELSE exit_status
              /\ UNCHANGED <<text_content, crash_site>>
         ELSE \E io_ok \in BOOLEAN :
                IF io_ok
                  THEN /\ text_content' = fs[text_output_file]
                       /\ pc' = "prompts"
                       /\ UNCHANGED <<printed, term>>
                  ELSE /\ pc' = "crashed"
                       /\ crash_site' = "read_text"
                       /\ exit_status' = 1
                       /\ UNCHANGED <<text_content, printed>>
    /\ UNCHANGED <<inputs, fs, folder, txt, image_prompts, prompt_loop, img_i, obs,
                   prompt_failed, sibling_seen, images_invoked, outcomes>>

\* line 88: range(num_prompts) has another element after `sent` requests
range_has_next(sent, num_prompts) == sent < num_prompts

\* a loop with the try inside it, as in generate_and_save_images
prompt_loop_never_left(request_ok) == TRUE

\* lines 87-100: the try encloses the loop, so a failing request ends it
prompt_loop_goes_on(request_ok) == request_ok

\* lines 97-98
collect_prompt(prompts, reply) == Append(prompts, reply)

\* generate_image_prompts (85-102), one request per step; the reply of the
\* r-th request is named r.  The last step returns to main (206-214), which
\* calls generate_and_save_images.
GenerateImagePrompt ==
    /\ pc = "prompts"
    /\ IF range_has_next(reqs.prompt, num_images) /\ prompt_loop
         THEN /\ reqs' = [reqs EXCEPT !.prompt = @ + 1]
              /\ prompt_inputs' = prompt_inputs \cup {text_content}
              /\ \E request_ok \in BOOLEAN :
                    /\ image_prompts' = IF request_ok
                                          THEN collect_prompt(image_prompts, reqs.prompt + 1)
                                          ELSE image_prompts
                    /\ prompt_loop' = prompt_loop_goes_on(request_ok)
                    /\ prompt_failed' = (prompt_failed \/ ~request_ok)
              /\ UNCHANGED <<pc, images_invoked>>
         ELSE /\ pc' = "purge"
              /\ images_invoked' = TRUE
              /\ UNCHANGED <<reqs, prompt_inputs, image_prompts, prompt_loop,
                             prompt_failed>>
    /\ UNCHANGED <<inputs, fs, folder, txt, num_images, text_content, img_i, asked,
                   tts_input, written, sibling_seen, outcomes, printed, term>>

\* a purge that removes the files only
item_removed_files_only(kind) == kind \in {"old", "new"}

\* lines 144-147: is the item removed (os.remove for a file, shutil.rmtree
\* for a directory)?
item_removed(kind) == kind \in {"old", "new"} \/ kind = "dir"

\* empty_directory (141-147)
empty_directory(fd) ==
    [n \in DOMAIN fd |-> IF item_removed(fd[n]) THEN "absent" ELSE fd[n]]

\* line 106: the purge; a removal that raises leaves main with some of the
\* items still there.
EmptyDirectory ==
    /\ pc = "purge"
    /\ \/ /\ folder' = empty_directory(folder)
          /\ pc' = "images"
          /\ UNCHANGED term
       \/ \E kept \in SUBSET {n \in DOMAIN folder : folder[n] # "absent"} :
             /\ kept # {}
             /\ folder' = [n \in DOMAIN folder |->
                              IF n \in kept THEN folder[n] ELSE empty_directory(folder)[n]]
             /\ pc' = "crashed"
             /\ crash_site' = "purge"
             /\ exit_status' = 1
    /\ UNCHANGED <<inputs, fs, txt, img, obs, notes>>

\* a loop that stops at the first failure, as generate_image_prompts does
next_image_index_abort(i, outcome, len) == IF outcome = "ok" THEN i + 1 ELSE len + 1

\* lines 108, 126-127: the try is inside the loop, so the loop goes on to the
\* next prompt whatever happened
next_image_index(i, outcome, len) == i + 1

\* lines 110-122 with download_image (129-139): the file is written only
\* when the image request, the HTTP GET and the file write all succeed
image_saved(outcome) == outcome = "ok"

\* generate_and_save_images, the loop (108-127), one prompt per step
GenerateImage ==
    /\ pc = "images"
    /\ IF img_i <= Len(image_prompts)
         THEN /\ reqs' = [reqs EXCEPT !.image = @ + 1]
              /\ \E outcome \in {"ok", "request_error", "download_error", "write_error"} :
                    /\ outcomes' = Append(outcomes, [i |-> img_i, outcome |-> outcome])
                    /\ folder' = IF image_saved(outcome)
                                   THEN [folder EXCEPT ![image_file(img_i)] = "new"]
                                   ELSE folder
                    /\ img_i' = next_image_index(img_i, outcome, Len(image_prompts))
              /\ UNCHANGED <<pc, exit_status>>
         ELSE /\ pc' = "done"
              /\ exit_status' = 0
              /\ UNCHANGED <<reqs, outcomes, folder, img_i>>
    /\ UNCHANGED <<inputs, fs, txt, num_images, text_content, image_prompts, prompt_loop,
                   asked, tts_input, prompt_inputs, written, prompt_failed, sibling_seen,
                   images_invoked, printed, crash_site>>

Next ==
    \/ CheckCredential
    \/ ReadSettings
    \/ MainStart
    \/ AskTextGeneration
    \/ GenerateText
    \/ SaveGeneratedText
    \/ TTSGate
    \/ PerformTTS
    \/ ImageGate
    \/ ReadTextForImages
    \/ GenerateImagePrompt
    \/ EmptyDirectory
    \/ GenerateImage

Spec == Init /\ [][Next]_vars

\* ---------------------------------------------------------------- claims
NewImages == {n \in FolderNames : folder[n] = "new"}

\* C1: when a text file is supplied on the command line, text generation
\* never runs (no confirmation, no request, the file is not written) and the
\* text sent to speech synthesis and with every image-prompt request is the
\* content the supplied file had.
C1_SuppliedTextUsedVerbatim ==
    cli.text_file # NoPath =>
       /\ "text" \notin asked
       /\ reqs.text = 0
       /\ \A w \in written : w[2] # cli.text_file
       /\ fs[cli.text_file] = fs0[cli.text_file]
       /\ tts_input \in {NoText, fs0[cli.text_file]}
       /\ text_content \in {NoText, fs0[cli.text_file]}
       /\ prompt_inputs \subseteq {fs0[cli.text_file]}

C1_Witness ==
    /\ cli.text_file # NoPath
    /\ settings.text_output_file # cli.text_file
    /\ path_exists(fs0, settings.text_output_file)
    /\ reqs.tts > 0
    /\ reqs.prompt > 0

SpeechSkipped ==
    /\ "tts" \notin asked
    /\ reqs.tts = 0
    /\ \A w \in written : w[1] # "tts"

\* C2 as stated: whenever the audio sibling of the text file in use exists
\* when the speech stage is reached, speech synthesis is skipped and the
\* audio file is not overwritten, for a supplied and for a generated text.
C2_SiblingAudioSkipsSpeech == sibling_seen => SpeechSkipped

\* C2 as amended: the same, for a text file supplied on the command line.
C2_SuppliedSiblingAudioSkipsSpeech ==
    (cli.text_file # NoPath /\ sibling_seen) =>
        /\ SpeechSkipped
        /\ fs[replace_txt_mp3(cli.text_file)] = fs0[replace_txt_mp3(cli.text_file)]

C2_Witness ==
    /\ cli.text_file = TXT
    /\ sibling_seen
    /\ fs0[MP3] = OldAudio
    /\ pc = "img_gate"

\* C3: once generate_and_save_images is invoked, every entry the folder had
\* is gone before the first image request or image write; after the stage
\* only images written by this run are there, named by prompt position.
C3_FolderPurgedBeforeImages ==
    /\ (reqs.image > 0 \/ NewImages # {}) =>
          \A n \in FolderNames : folder[n] \notin {"old", "dir"}
    /\ (images_invoked /\ pc = "done") =>
          \A n \in FolderNames :
             folder[n] # "absent" =>
                /\ folder[n] = "new"
                /\ \E i \in 1..Len(image_prompts) : n = image_file(i)

C3_Witness ==
    /\ pc = "done"
    /\ images_invoked
    /\ folder0[Sub] = "dir"
    /\ folder0[image_file(1)] = "old"
    /\ folder[image_file(1)] = "absent"
    /\ folder[image_file(2)] = "new"

\* C4: generate_image_prompts sends its requests in order and stops at the
\* first failure: k successes then a failure give k+1 requests and the k
\* prompts in request order; without a failure there are N prompts.
C4_PromptsStopAtFirstFailure ==
    /\ image_prompts = [j \in 1..Len(image_prompts) |-> j]
    /\ reqs.prompt <= Len(image_prompts) + 1
    /\ images_invoked =>
          IF prompt_failed
            THEN /\ reqs.prompt = Len(image_prompts) + 1
                 /\ reqs.prompt <= num_images
            ELSE /\ Len(image_prompts) = num_images
                 /\ reqs.prompt = num_images

C4_Witness ==
    /\ images_invoked
    /\ prompt_failed
    /\ Len(image_prompts) >= 1
    /\ reqs.prompt < num_images

\* C5: generate_and_save_images attempts every prompt once, in order,
\* whatever failed before, and file i is there iff request and download of
\* prompt i both succeeded.
C5_EveryPromptAttempted ==
    /\ \A k \in 1..Len(outcomes) : outcomes[k].i = k
    /\ reqs.image = Len(outcomes)
    /\ (images_invoked /\ pc = "done") => Len(outcomes) = Len(image_prompts)
    /\ pc \in {"images", "done"} /\ images_invoked =>
          \A i \in 1..MaxNum :
             folder[image_file(i)] = "new" <=>
                (i <= Len(outcomes) /\ outcomes[i].outcome = "ok")

C5_Witness ==
    /\ pc = "done"
    /\ Len(outcomes) = 3
    /\ outcomes[1].outcome = "request_error"
    /\ outcomes[2].outcome = "download_error"
    /\ outcomes[3].outcome = "ok"
    /\ folder[image_file(3)] = "new"
    /\ folder[image_file(1)] = "absent"

\* C6: when the requested count (command line or default) exceeds the
\* maximum, neither the prompt requests nor the image requests nor the
\* images written exceed the maximum.
C6_CappedAtMaximum ==
    parsed_num_images(cli, settings) > settings.max_num_images =>
       /\ reqs.prompt <= settings.max_num_images
       /\ reqs.image <= settings.max_num_images
       /\ Cardinality(NewImages) <= settings.max_num_images

C6_Witness ==
    /\ cli.num_images # NoNum
    /\ cli.num_images > settings.max_num_images
    /\ settings.max_num_images >= 1
    /\ reqs.prompt = settings.max_num_images
    /\ Cardinality(NewImages) = settings.max_num_images
    /\ pc = "done"

\* C7: a failure inside a stage (saving the generated text and the folder
\* purge included) never leaves main.
C7_NoStageFailureLeavesMain == crash_site \notin {"save_text", "purge"}

\* C8: no speech request without an available, readable text file; and with
\* the text output file absent at the image stage there is no image-prompt
\* request, no image request and the folder is as it was.
C8_StagesNeedTheirInput ==
    /\ reqs.tts > 0 =>
          /\ text_file_available
          /\ tts_input \notin {NoText, Absent}
          /\ cli.text_file # NoPath \/ <<"save", args_text_file>> \in written
    /\ ("image" \in asked /\ ~path_exists(fs, text_output_file)) =>
          /\ reqs.prompt = 0
          /\ reqs.image = 0
          /\ ~images_invoked
          /\ folder = folder0

C8_Witness ==
    /\ "text output file not found" \in printed
    /\ parsed_num_images(cli, settings) >= 1
    /\ settings.max_num_images >= 1
    /\ folder0[Sub] = "dir"
    /\ pc = "done"

AllZero(r) == r.text = 0 /\ r.tts = 0 /\ r.prompt = 0 /\ r.image = 0

\* C9: without the credential, or without a readable settings file, the
\* process ends with a non-zero status before any stage: nothing asked, sent
\* or written; the credential is checked first.
C9_StartupFailureExits ==
    (~openai_api_key \/ settings_file # "ok") =>
       /\ pc \in {"start", "read_settings", "exited"}
       /\ pc = "exited" => exit_status > 0
       /\ asked = {} /\ AllZero(reqs) /\ written = {}
       /\ fs = fs0 /\ folder = folder0
       /\ ~openai_api_key => pc # "read_settings"

C9_Witness ==
    /\ openai_api_key
    /\ settings_file = "missing"
    /\ pc = "exited"
    /\ exit_status = 1

\* C10: for a count n >= 0 given on the command line and a maximum m, the
\* prompt sequence is no longer than min(n, m).
C10_PromptsWithinRequested ==
    cli.num_images # NoNum =>
       Len(image_prompts) <= Min(cli.num_images, settings.max_num_images)
====
